---- MODULE Spec2Model ----
(***************************************************************************)
(* Model of astrbot_network_error_plugin.py: the handler built by          *)
(* create_network_error_handler (retry with exponential backoff, recall of *)
(* the previously tracked message, error notice) and the shared registry   *)
(* last_sent_message_ids guarded by the asyncio.Lock _message_ids_lock.    *)
(*                                                                         *)
(* Each task is one invocation of network_error_handler.  A step of the    *)
(* model is the code an asyncio task runs between two suspension points:   *)
(* an awaited call, a sleep, or an acquire() of a lock that is not free.   *)
(* acquire() of a free lock does not suspend, so a critical section with   *)
(* no await in it is part of the step that reaches it.                     *)
(* asyncio.CancelledError and KeyboardInterrupt are BaseException          *)
(* (Python >= 3.8), so `except Exception` does not catch them.             *)
(***************************************************************************)
EXTENDS Integers, Sequences, FiniteSets, TLC

\* ------------------------------------------------------------------ bounds
NumTasks == 2
MaxInvocations == 3
MaxRetryAttempts == 2
MaxRecallRetryAttempts == 1

Tasks == 1..NumTasks
Channels == {"c1", "c2"}

\* ------------------------------------------------------------- values
\* Python None (dict.get on a missing key, an action that returns no id).
None == "<None>"

\* What next_action / response.message_id may hand back before str():
\* an int id, the same id already as text, another text id, the empty text.
RawIds ==
    { [kind |-> "int", i |-> 7, s |-> ""],
      [kind |-> "str", i |-> 0, s |-> "7"],
      [kind |-> "str", i |-> 0, s |-> "8"],
      [kind |-> "str", i |-> 0, s |-> ""] }
RawNone == [kind |-> "none", i |-> 0, s |-> ""]

IntText(n) == IF n = 7 THEN "7" ELSE "0"

\* str(message_id_raw)
Str(raw) ==
    CASE raw.kind = "int" -> IntText(raw.i)
      [] raw.kind = "str" -> raw.s
      [] OTHER -> "None"

MsgIds == { Str(r) : r \in RawIds }

\* Python truthiness of `last_message_id_in_channel`
Truthy(v) == v # None /\ v # ""

\* --------------------------------------------------------------- errors
\* An exception: its class and the (lower-cased) text of str(error).
Errors ==
    { [type |-> "NetworkError", msg |-> "simulated outage"],
      [type |-> "ValueError",   msg |-> "bad input"],
      [type |-> "ValueError",   msg |-> "read timeout"],
      [type |-> "TypeError",    msg |-> "failed to fetch"],
      [type |-> "ValueError",   msg |-> "failed to fetch"] }

\* What left the handler: nothing, a CancelledError / KeyboardInterrupt, or
\* the exception e that the call `origin` raised.
NoError == [type |-> "none", msg |-> "", origin |-> ""]
Cancelled == [type |-> "CancelledError", msg |-> "", origin |-> ""]
From(e, call) == [type |-> e.type, msg |-> e.msg, origin |-> call]

\* The keywords of is_network_error found in a lower-cased message.
WordsIn(msg) ==
    CASE msg = "read timeout" -> {"timeout"}
      [] msg = "failed to fetch" -> {"fetch"}
      [] OTHER -> {}

NetworkWords ==
    {"network", "timeout", "connection reset", "connection refused",
     "host unreachable", "name or service not known"}
FetchWords == {"fetch", "network request"}

is_network_error(error) ==
    \/ error.type = "NetworkError"
    \/ WordsIn(error.msg) \cap NetworkWords # {}
    \/ (error.type = "TypeError" /\ WordsIn(error.msg) \cap FetchWords # {})

\* ---------------------------------------------------------- configuration
\* DEFAULT_CONFIG
DefaultRetryDelayBase == 1000
DefaultRecallRetryDelayBase == 500

\* A configuration that overrides the delay bases (lines 113-114).
CustomConfigs ==
    { [ retry_attempts |-> 2, retry_delay_base |-> 100,
        log_sensitive_info |-> FALSE,
        recall_retry_attempts |-> 1, recall_retry_delay_base |-> 250 ] }

\* The configurations a handler is built with (all pass validate_config).
Configs ==
    [ retry_attempts : 0..MaxRetryAttempts,
      retry_delay_base : {DefaultRetryDelayBase},
      log_sensitive_info : BOOLEAN,
      recall_retry_attempts : 0..MaxRecallRetryAttempts,
      recall_retry_delay_base : {DefaultRecallRetryDelayBase} ]
    \cup CustomConfigs

\* A Python value of a configuration dict: its type and, for a number, its
\* value (True is 1 and False is 0; FloatV(n) is the float n.0).
IntV(n) == [kind |-> "int", v |-> n]
BoolV(b) == [kind |-> "bool", v |-> IF b THEN 1 ELSE 0]
FloatV(n) == [kind |-> "float", v |-> n]
StrV == [kind |-> "str", v |-> 0]
NoneV == [kind |-> "NoneType", v |-> 0]

\* isinstance(x, int): bool is a subclass of int.
IsInt(x) == x.kind \in {"int", "bool"}
\* isinstance(x, (int, float))
IsNumber(x) == x.kind \in {"int", "bool", "float"}
\* isinstance(x, str), isinstance(x, bool)
IsStr(x) == x.kind = "str"
IsBool(x) == x.kind = "bool"

\* validate_config(config): the line of the `raise ValueError` it reaches, or
\* 0 when it returns.
validate_config(c) ==
    CASE ~IsInt(c.retry_attempts) \/ c.retry_attempts.v < 0 -> 53
      [] ~IsNumber(c.retry_delay_base) \/ c.retry_delay_base.v <= 0 -> 55
      [] ~IsStr(c.error_message) -> 57
      [] ~IsBool(c.log_sensitive_info) -> 59
      [] ~IsInt(c.recall_retry_attempts) \/ c.recall_retry_attempts.v < 0 -> 61
      [] ~IsNumber(c.recall_retry_delay_base)
            \/ c.recall_retry_delay_base.v <= 0 -> 63
      [] OTHER -> 0

\* current_config (lines 112-114) for the dicts a caller may pass.
RawConfigs ==
    [ retry_attempts :
          {IntV(0 - 1), IntV(0), IntV(2), BoolV(TRUE), FloatV(1), StrV, NoneV},
      retry_delay_base :
          {IntV(DefaultRetryDelayBase), IntV(0), IntV(0 - 5), FloatV(100),
           FloatV(0), StrV},
      error_message : {StrV, NoneV},
      log_sensitive_info : {BoolV(TRUE), BoolV(FALSE), IntV(1), StrV},
      recall_retry_attempts :
          {IntV(0 - 1), IntV(1), BoolV(FALSE), FloatV(2), NoneV},
      recall_retry_delay_base :
          {IntV(DefaultRecallRetryDelayBase), IntV(0), FloatV(0 - 250)} ]

\* current_config as a dict of Python values, for a configuration in use.
Raw(cfg) ==
    [ retry_attempts |-> IntV(cfg.retry_attempts),
      retry_delay_base |-> IntV(cfg.retry_delay_base),
      error_message |-> StrV,
      log_sensitive_info |-> BoolV(cfg.log_sensitive_info),
      recall_retry_attempts |-> IntV(cfg.recall_retry_attempts),
      recall_retry_delay_base |-> IntV(cfg.recall_retry_delay_base) ]

\* Lines 118-123: the values the handler closes over.
Closed(c) ==
    [ retry_attempts |-> c.retry_attempts.v,
      retry_delay_base |-> c.retry_delay_base.v,
      log_sensitive_info |-> (c.log_sensitive_info.v = 1),
      recall_retry_attempts |-> c.recall_retry_attempts.v,
      recall_retry_delay_base |-> c.recall_retry_delay_base.v ]

\* create_network_error_handler has not returned yet / returned the handler /
\* raised at the given line of validate_config.
Unbuilt == [state |-> "unbuilt", type |-> "", line |-> 0]
Built == [state |-> "built", type |-> "", line |-> 0]
Raised(line) == [state |-> "raised", type |-> "ValueError", line |-> line]
Unset == "<unset>"
\* No ledger is kept.
Off ==
    [kept |-> FALSE, sent |-> {}, recalled |-> {}, resent |-> FALSE,
     twice |-> FALSE]

\* ------------------------------------------------------------------ state
VARIABLES
    candidate,     \* current_config: DEFAULT_CONFIG updated with the caller's
    handler,       \* the outcome of create_network_error_handler
    config,        \* current_config closed over by the handler
    registry,      \* last_sent_message_ids: a dict channel -> text id
    lockHolder,    \* the task inside `async with _message_ids_lock`, or 0
    lockWaiters,   \* the lock's FIFO queue of tasks waiting to acquire
    inv,           \* per task: the frame of its invocation of the handler
    unlocked,      \* source lines where the registry was touched unlocked
    started,       \* invocations started so far
    confirmed,     \* per channel: the id of the last message confirmed sent
    ledger         \* when kept: the ids sent and the ids recalled so far

vars == << candidate, handler, config, registry, lockHolder, lockWaiters,
          inv, unlocked, started, confirmed, ledger >>

\* What the handler's steps leave alone unless they say otherwise.
same == << candidate, handler, config, started, confirmed, ledger >>

NoCall == [op |-> "none", channel |-> "", id |-> "", ms |-> 0]
ActionCall(c) == [op |-> "next_action", channel |-> c, id |-> "", ms |-> 0]
SleepCall(millis) == [op |-> "sleep", channel |-> "", id |-> "", ms |-> millis]
RecallCall(c, m) == [op |-> "recall_message", channel |-> c, id |-> m, ms |-> 0]
SendCall(c) == [op |-> "send_message", channel |-> c, id |-> "", ms |-> 0]

\* What an invocation has done so far (observation only).
ZeroStats ==
    [ innerCalls |-> 0, fails |-> 0, sleeps |-> 0, recallRuns |-> 0,
      recallCalls |-> 0, recallSleeps |-> 0, noticeSends |-> 0, writes |-> 0 ]

\* The frame of network_error_handler(event):
\*   pc        where the invocation stands
\*   ch        event.channel_id
\*   prior     last_message_id_in_channel
\*   attempts  index of `for attempts in range(retry_attempts)`
\*   rattempts index of the recall routine's `for attempts in range(...)`
\*   pending   message_id_str / error_message_id_str about to be stored
\*   raised    the exception that left the handler
\*   awaiting  the awaited call the task is suspended on
\*   logged    the source lines of the logger calls it has made
Frame(c) ==
    [ pc |-> "idle", ch |-> c, prior |-> None, attempts |-> 0, rattempts |-> 0,
      pending |-> "", raised |-> NoError, awaiting |-> NoCall,
      stats |-> ZeroStats, logged |-> {} ]

Count(l, field) == [l EXCEPT !.stats[field] = @ + 1]

\* The logger call at source line `line` is made.
Logs(l, line) == [l EXCEPT !.logged = @ \cup {line}]

\* What the f-string of the logger call at each source line formats: the
\* channel id, a message id, the text of a caught exception.
LogLines ==
    {77, 79, 85, 88, 92, 94, 142, 144, 147, 152, 156, 166, 168, 171, 175, 177,
     181, 194, 196, 198, 200, 203, 206}
LogRecord(line) ==
    [ channel_id |-> TRUE,
      message_id |-> line \in {77, 85, 88, 92, 142, 166, 194},
      error_text |-> line \in {85, 88, 152, 175, 177, 200, 203, 206} ]

\* `if log_sensitive_info: logger.debug(...) else: logger.info(...)`
Either(debugLine, infoLine) ==
    IF config.log_sensitive_info THEN debugLine ELSE infoLine

\* send_message's result: nothing, an object without message_id, or one with it.
NoticeResponses ==
    { [present |-> FALSE, has_id |-> FALSE, message_id |-> RawNone],
      [present |-> TRUE,  has_id |-> FALSE, message_id |-> RawNone] }
    \cup { [present |-> TRUE, has_id |-> TRUE, message_id |-> r] : r \in RawIds }

\* ------------------------------------------------------- dict operations
\* last_sent_message_ids.get(channel_id)
Get(reg, c) == IF c \in DOMAIN reg THEN reg[c] ELSE None
\* last_sent_message_ids[channel_id] = v
Put(reg, c, v) == [x \in DOMAIN reg \cup {c} |-> IF x = c THEN v ELSE reg[x]]
\* last_sent_message_ids.pop(channel_id, None)
Pop(reg, c) == [x \in DOMAIN reg \ {c} |-> reg[x]]

\* A registry access at source line `line` by task t while `holder` has the lock.
Unheld(t, holder, line) == IF holder = t THEN {} ELSE {line}

\* delay = retry_delay_base_ms * (2 ** attempts) / 1000, kept in milliseconds
RetryDelayFromOne(n) == config.retry_delay_base * (2 ^ (n + 1))
RetryDelay(n) == config.retry_delay_base * (2 ^ n)
\* delay = recall_retry_delay_base_ms * (2 ** attempts) / 1000
RecallDelay(n) == config.recall_retry_delay_base * (2 ^ n)

\* ------------------------------------------------------------------- Init
\* Lines 27-28: the module's globals, and no invocation yet.
Fresh ==
    /\ registry = [c \in {} |-> ""]
    /\ lockHolder = 0
    /\ lockWaiters = << >>
    /\ inv = [t \in Tasks |-> Frame("")]
    /\ unlocked = {}
    /\ started = 0
    /\ confirmed = [c \in Channels |-> None]

\* A handler has been built with a configuration that passed validate_config.
Init ==
    /\ config \in Configs
    /\ candidate = Raw(config)
    /\ handler = Built
    /\ ledger = Off
    /\ Fresh

\* ------------------------------------------------------ leaving the handler
\* The locals of an invocation that has ended are gone with its frame.
Ended(l, p, e) ==
    [Frame("") EXCEPT !.pc = p, !.raised = e, !.stats = l.stats,
                      !.logged = l.logged]

\* The exception e leaves network_error_handler.
Leave(l, e) == Ended(l, "propagate", e)
\* The handler returns normally.
Return(l) == Ended(l, "done", NoError)

Terminal == {"idle", "done", "propagate"}

\* -------------------------------------------- pieces of the handler's code
\* Line 131 then 135: the snapshot taken, next_action is called.
Snapshotted(l, reg) ==
    Count([l EXCEPT !.prior = Get(reg, l.ch), !.pc = "initial_call",
                    !.awaiting = ActionCall(l.ch)], "innerCalls")

\* Lines 139, 164, 192: last_sent_message_ids[channel_id] = message_id_str
StoredNowhere(reg, l) == reg
StoredIfAbsent(reg, l) ==
    IF l.ch \in DOMAIN reg THEN reg
                           ELSE [x \in DOMAIN reg \cup {l.ch} |->
                                   IF x = l.ch THEN l.pending ELSE reg[x]]
Stored(reg, l) == Put(reg, l.ch, l.pending)

\* Line 80: last_sent_message_ids.pop(channel_id, None)
ClearedNothing(reg, l) == reg
Cleared(reg, l) == Pop(reg, l.ch)

\* Line 72: last_sent_message_ids.get(channel_id) == message_id_str
StillCurrentUnchecked(reg, l) == TRUE
StillCurrent(reg, l) == Get(reg, l.ch) = l.prior

\* Line 75: recall_message(channel_id, message_id_str) is called.
BeginRecall(l, n) ==
    Count([l EXCEPT !.rattempts = n, !.pc = "recall_call",
                    !.awaiting = RecallCall(l.ch, l.prior)], "recallCalls")

\* Line 188: send_message(channel_id, error_message_text) is called.
BeginNotice(l) ==
    Count([l EXCEPT !.pc = "notice_send", !.awaiting = SendCall(l.ch)],
          "noticeSends")

\* Lines 181-184: all retries failed.  The recall routine runs when the
\* snapshot is truthy; otherwise the notice send starts at once.
RecoverWithoutRecall(l) == BeginNotice(l)
Recover(l) ==
    IF Truthy(l.prior)
      THEN Count([Logs(l, 181) EXCEPT !.pc = "recall_wait",
                                      !.awaiting = NoCall], "recallRuns")
      ELSE BeginNotice(Logs(l, 181))

\* Lines 155-157: the sleep before retry number n (from 0).
Backoff(l, n) ==
    Count([Logs(l, 156) EXCEPT !.attempts = n, !.pc = "backoff",
                               !.awaiting = SleepCall(RetryDelay(n))], "sleeps")

\* Lines 152 and 203, 175 and 177: the log of a failed call of next_action.
FailureLine(e, n) ==
    IF n = 0 THEN (IF is_network_error(e) THEN 152 ELSE 203)
             ELSE (IF is_network_error(e) THEN 175 ELSE 177)

\* Line 154: is the retry with index n still to be made?
RetryLeft(n) == n < config.retry_attempts

\* Lines 150-152, 173-178, 201-204: next_action raised e, n retries made.
OnActionRaisesRetryAll(l, e, n) ==
    IF RetryLeft(n) THEN Backoff(Count(l, "fails"), n)
                    ELSE Recover(Count(l, "fails"))
OnActionRaisesRetrySwallows(l, e, n) ==
    IF is_network_error(e) \/ n > 0
      THEN IF RetryLeft(n) THEN Backoff(Count(l, "fails"), n)
                           ELSE Recover(Count(l, "fails"))
      ELSE Leave(l, From(e, "next_action"))
OnActionRaises(l, e, n) ==
    IF is_network_error(e)
      THEN IF RetryLeft(n)
             THEN Backoff(Count(Logs(l, FailureLine(e, n)), "fails"), n)
             ELSE Recover(Count(Logs(l, FailureLine(e, n)), "fails"))
      ELSE Leave(Logs(l, FailureLine(e, n)), From(e, "next_action"))

\* Lines 141-144, 165-168, 193-196: the log that follows the store at `wait`.
SuccessLine(wait) ==
    CASE wait = "store_wait" -> Either(142, 144)
      [] wait = "retry_store_wait" -> Either(166, 168)
      [] wait = "notice_store_wait" -> Either(194, 196)

\* Lines 136-144 and 161-169: next_action returned r; an id is to be stored
\* under the lock (at `wait`), none ends the invocation.
OnActionReturns(l, r, wait) ==
    IF r # RawNone
      THEN [l EXCEPT !.pending = Str(r), !.pc = wait, !.awaiting = NoCall]
      ELSE Return(Logs(l, SuccessLine(wait)))

\* A CancelledError raised at an await of the handler outside the recall
\* routine: caught and re-raised by lines 146-148 (from lines 135, 138) or
\* 170-172 (from lines 160, 163), caught nowhere from lines 130, 157, 188, 191.
OnCancelled(l) ==
    CASE l.pc \in {"initial_call", "store_wait"} ->
            Leave(Logs(l, 147), Cancelled)
      [] l.pc \in {"retry_call", "retry_store_wait"} ->
            Leave(Logs(l, 171), Cancelled)
      [] OTHER -> Leave(l, Cancelled)

\* Line 83: attempts < recall_retry_attempts
RecallRetryLeftOneMore(n) == n <= config.recall_retry_attempts
RecallRetryLeft(n) == n < config.recall_retry_attempts

\* Lines 82-88: recall_message raised an Exception: sleep and try again, or
\* log the failure, leave the routine and go on to the notice (line 188).
OnRecallRaisesReraises(l, e) ==
    IF RecallRetryLeft(l.rattempts)
      THEN Count([l EXCEPT !.pc = "recall_sleep",
                           !.awaiting = SleepCall(RecallDelay(l.rattempts))],
                 "recallSleeps")
      ELSE Leave(l, From(e, "recall_message"))
OnRecallRaises(l, e) ==
    IF RecallRetryLeft(l.rattempts)
      THEN Count([Logs(l, 85) EXCEPT
                     !.pc = "recall_sleep",
                     !.awaiting = SleepCall(RecallDelay(l.rattempts))],
                 "recallSleeps")
      ELSE BeginNotice(Logs(l, 88))

\* A CancelledError raised at line 75 or 86: `except Exception` at line 82
\* lets it through, `async with` releases the lock, the handler is left.
OnRecallCancelledCaught(l) ==
    IF l.pc = "recall_call" THEN OnRecallRaises(l, Cancelled)
                            ELSE Leave(l, Cancelled)
OnRecallCancelled(l) == Leave(l, Cancelled)

\* Lines 75-81: recall_message returned: the entry dropped (line 80), on to
\* the notice (line 188).
OnRecallReturns(l) == BeginNotice(Count(Logs(l, Either(77, 79)), "writes"))

\* Lines 189-198: send_message returned resp.
OnNoticeReturns(l, resp) ==
    IF resp.present /\ resp.has_id
      THEN [l EXCEPT !.pending = Str(resp.message_id),
                     !.pc = "notice_store_wait", !.awaiting = NoCall]
      ELSE Return(Logs(l, 198))

\* Lines 199-200: send_message raised an Exception: logged, not raised.
OnNoticeRaisesReraises(l, e) == Leave(l, From(e, "send_message"))
OnNoticeRaises(l, e) == Return(Logs(l, 200))

\* Line 193: is the registry read again for the debug log at line 194?
LogsStoredId(l) == l.pc = "notice_store_wait" /\ config.log_sensitive_info

\* ------------------------------------------------------------- the lock
\* Those where it stands there with the id of a sent message to store.
StoreWaits == {"store_wait", "retry_store_wait", "notice_store_wait"}

\* The wrapper learns that message m was sent on channel c (observation).
Confirm(c, m) == [confirmed EXCEPT ![c] = m]

\* The ledger (observation): the ids that sends have returned, the ids whose
\* recall_message call has returned, whether a send returned an id a second
\* time and whether a recall succeeded for an id a second time.
NoLedger == [Off EXCEPT !.kept = TRUE]
Sent(m) ==
    IF ledger.kept
      THEN [ledger EXCEPT !.sent = @ \cup {m},
                          !.resent = @ \/ m \in ledger.sent]
      ELSE ledger
Recalled(m) ==
    IF ledger.kept
      THEN [ledger EXCEPT !.recalled = @ \cup {m},
                          !.twice = @ \/ m \in ledger.recalled]
      ELSE ledger

\* The places where a frame stands at `async with _message_ids_lock`.
LockWaits ==
    {"snap_wait", "store_wait", "retry_store_wait", "recall_wait",
     "notice_store_wait"}

SiteLine(p) ==
    CASE p = "snap_wait" -> 131
      [] p = "store_wait" -> 139
      [] p = "retry_store_wait" -> 164
      [] p = "recall_wait" -> 72
      [] p = "notice_store_wait" -> 192

\* The lock's holder while the body of the `async with` at l.pc touches the
\* registry, t having acquired it.
HolderInside(t, l) == t

\* The lock's holder once task t has run the `async with` block at l.pc up to
\* its first await, or to its end: the recall routine keeps the lock over
\* its awaits, the other blocks have none.
HolderAfterFree(t, l, reg) == 0
HolderAfter(t, l, reg) ==
    IF l.pc = "recall_wait" /\ StillCurrent(reg, l) THEN t ELSE 0

\* The frame after the `async with` block at l.pc, run up to the next await.
FrameAfter(l, reg) ==
    CASE l.pc = "snap_wait" -> Snapshotted(l, reg)
      [] l.pc = "recall_wait" ->
            IF StillCurrent(reg, l)
              THEN BeginRecall(l, 0)
              ELSE BeginNotice(Logs(l, Either(92, 94)))
      [] OTHER -> Return(Count(Logs(l, SuccessLine(l.pc)), "writes"))

\* The registry after that block.
RegistryAfter(l, reg) ==
    IF l.pc \in StoreWaits THEN Stored(reg, l) ELSE reg

\* Task t, let into the lock with frame l, runs on to its next suspension.
Enter(t, l) ==
    /\ registry' = RegistryAfter(l, registry)
    /\ lockHolder' = HolderAfter(t, l, registry)
    /\ unlocked' = unlocked
          \cup Unheld(t, HolderInside(t, l), SiteLine(l.pc))
          \cup ( IF LogsStoredId(l) THEN Unheld(t, lockHolder', 194) ELSE {} )
    /\ inv' = [inv EXCEPT ![t] = FrameAfter(l, registry)]

\* asyncio.Lock.acquire returns at once: the lock is free, nobody waits.
LockFree == lockHolder = 0 /\ lockWaiters = << >>

\* Task t, not holding the lock, goes on with frame l.  A frame that stands
\* at an `async with _message_ids_lock` enters if the lock is free and joins
\* the lock's queue, suspended, if not.
Goes(t, l) ==
    IF l.pc \in LockWaits
      THEN IF LockFree
             THEN Enter(t, l) /\ UNCHANGED lockWaiters
             ELSE /\ inv' = [inv EXCEPT ![t] = l]
                  /\ lockWaiters' = Append(lockWaiters, t)
                  /\ UNCHANGED << registry, lockHolder, unlocked >>
      ELSE /\ inv' = [inv EXCEPT ![t] = l]
           /\ UNCHANGED << registry, lockHolder, lockWaiters, unlocked >>

\* Task t, holding the lock in the recall routine, goes on with frame l,
\* the registry being reg; it keeps the lock only while it stays there.
GoesHoldingKeeps(t, l, reg) ==
    /\ inv' = [inv EXCEPT ![t] = l]
    /\ registry' = reg
    /\ lockHolder' = t
    /\ UNCHANGED << lockWaiters >>
GoesHoldingLeaks(t, l, reg) ==
    /\ inv' = [inv EXCEPT ![t] = l]
    /\ registry' = reg
    /\ lockHolder' = IF l.pc \in {"recall_call", "recall_sleep", "propagate"}
                        THEN t ELSE 0
    /\ UNCHANGED << lockWaiters >>
GoesHolding(t, l, reg) ==
    /\ inv' = [inv EXCEPT ![t] = l]
    /\ registry' = reg
    /\ lockHolder' = IF l.pc \in {"recall_call", "recall_sleep"} THEN t ELSE 0
    /\ UNCHANGED << lockWaiters >>

\* ------------------------------------------------- network_error_handler
\* The host dispatches an event of channel c to the handler (lines 127-135).
Invoke(t, c) ==
    /\ handler = Built
    /\ inv[t].pc \in Terminal
    /\ started < MaxInvocations
    /\ started' = started + 1
    /\ Goes(t, [Frame(c) EXCEPT !.pc = "snap_wait"])
    /\ UNCHANGED << candidate, handler, config, confirmed, ledger >>

\* The lock was released and t is first in its queue: acquire() returns.
LockAcquire(t) ==
    /\ inv[t].pc \in LockWaits
    /\ lockHolder = 0
    /\ Head(lockWaiters) = t
    /\ lockWaiters' = Tail(lockWaiters)
    /\ Enter(t, inv[t])
    /\ UNCHANGED same

\* A task suspended in acquire() is cancelled: it leaves the queue.
LockWaitCancelled(t) ==
    /\ inv[t].pc \in LockWaits
    /\ lockWaiters' = SelectSeq(lockWaiters, LAMBDA x : x # t)
    /\ inv' = [inv EXCEPT ![t] = OnCancelled(@)]
    /\ UNCHANGED << same, registry, lockHolder, unlocked >>

\* Line 135: next_action returned r, raised e, or was cancelled.
InitialReturns(t, r) ==
    /\ inv[t].pc = "initial_call"
    /\ Goes(t, OnActionReturns(inv[t], r, "store_wait"))
    /\ confirmed' = IF r # RawNone THEN Confirm(inv[t].ch, Str(r)) ELSE confirmed
    /\ ledger' = IF r # RawNone THEN Sent(Str(r)) ELSE ledger
    /\ UNCHANGED << candidate, handler, config, started >>

InitialRaises(t, e) ==
    /\ inv[t].pc = "initial_call"
    /\ Goes(t, OnActionRaises(inv[t], e, 0))
    /\ UNCHANGED same

InitialCancelled(t) ==
    /\ inv[t].pc = "initial_call"
    /\ Goes(t, OnCancelled(inv[t]))
    /\ UNCHANGED same

\* Line 157 returns, line 160 calls next_action again.
BackoffDone(t) ==
    /\ inv[t].pc = "backoff"
    /\ Goes(t, Count([inv[t] EXCEPT !.pc = "retry_call",
                                    !.awaiting = ActionCall(inv[t].ch)],
                     "innerCalls"))
    /\ UNCHANGED same

BackoffCancelled(t) ==
    /\ inv[t].pc = "backoff"
    /\ Goes(t, OnCancelled(inv[t]))
    /\ UNCHANGED same

\* Line 160: next_action returned r, raised e, or was cancelled.
RetryReturns(t, r) ==
    /\ inv[t].pc = "retry_call"
    /\ Goes(t, OnActionReturns(inv[t], r, "retry_store_wait"))
    /\ confirmed' = IF r # RawNone THEN Confirm(inv[t].ch, Str(r)) ELSE confirmed
    /\ ledger' = IF r # RawNone THEN Sent(Str(r)) ELSE ledger
    /\ UNCHANGED << candidate, handler, config, started >>

RetryRaises(t, e) ==
    /\ inv[t].pc = "retry_call"
    /\ Goes(t, OnActionRaises(inv[t], e, inv[t].attempts + 1))
    /\ UNCHANGED same

RetryCancelled(t) ==
    /\ inv[t].pc = "retry_call"
    /\ Goes(t, OnCancelled(inv[t]))
    /\ UNCHANGED same

\* ------------------------------------------ _recall_and_clear_message_id
\* Lines 75-81: recall_message returned; drop the entry, leave the lock,
\* go on to the notice (line 188).
RecallReturns(t) ==
    /\ inv[t].pc = "recall_call"
    /\ GoesHolding(t, OnRecallReturns(inv[t]), Cleared(registry, inv[t]))
    /\ unlocked' = unlocked \cup Unheld(t, lockHolder, 80)
    /\ ledger' = Recalled(inv[t].awaiting.id)
    /\ UNCHANGED << candidate, handler, config, started, confirmed >>

\* Lines 82-88: recall_message raised an Exception: sleep and try again, or
\* give up, leave the lock and go on to the notice.
RecallRaises(t, e) ==
    /\ inv[t].pc = "recall_call"
    /\ GoesHolding(t, OnRecallRaises(inv[t], e), registry)
    /\ UNCHANGED << same, unlocked >>

\* Line 86 returns, then line 75 of the next iteration.
RecallSleepDone(t) ==
    /\ inv[t].pc = "recall_sleep"
    /\ GoesHolding(t, BeginRecall(inv[t], inv[t].rattempts + 1), registry)
    /\ UNCHANGED << same, unlocked >>

RecallCancelled(t) ==
    /\ inv[t].pc \in {"recall_call", "recall_sleep"}
    /\ GoesHolding(t, OnRecallCancelled(inv[t]), registry)
    /\ UNCHANGED << same, unlocked >>

\* ------------------------------------------------------ the error notice
\* Line 188: send_message returned resp, raised e, or was cancelled.
NoticeReturns(t, resp) ==
    /\ inv[t].pc = "notice_send"
    /\ Goes(t, OnNoticeReturns(inv[t], resp))
    /\ confirmed' = IF resp.present /\ resp.has_id
                       THEN Confirm(inv[t].ch, Str(resp.message_id))
                       ELSE confirmed
    /\ ledger' = IF resp.present /\ resp.has_id
                    THEN Sent(Str(resp.message_id))
                    ELSE ledger
    /\ UNCHANGED << candidate, handler, config, started >>

NoticeRaises(t, e) ==
    /\ inv[t].pc = "notice_send"
    /\ Goes(t, OnNoticeRaises(inv[t], e))
    /\ UNCHANGED same

NoticeCancelled(t) ==
    /\ inv[t].pc = "notice_send"
    /\ Goes(t, OnCancelled(inv[t]))
    /\ UNCHANGED same

\* ------------------------------------------------------------------- Next
Next ==
    \E t \in Tasks :
        \/ \E c \in Channels : Invoke(t, c)
        \/ LockAcquire(t)
        \/ LockWaitCancelled(t)
        \/ \E r \in RawIds \cup {RawNone} : InitialReturns(t, r)
        \/ \E e \in Errors : InitialRaises(t, e)
        \/ InitialCancelled(t)
        \/ BackoffDone(t)
        \/ BackoffCancelled(t)
        \/ \E r \in RawIds \cup {RawNone} : RetryReturns(t, r)
        \/ \E e \in Errors : RetryRaises(t, e)
        \/ RetryCancelled(t)
        \/ RecallReturns(t)
        \/ \E e \in Errors : RecallRaises(t, e)
        \/ RecallSleepDone(t)
        \/ RecallCancelled(t)
        \/ \E resp \in NoticeResponses : NoticeReturns(t, resp)
        \/ \E e \in Errors : NoticeRaises(t, e)
        \/ NoticeCancelled(t)

Spec == Init /\ [][Next]_vars

\* The call task t awaits returns or raises.
Resolves(t) ==
    \/ \E r \in RawIds \cup {RawNone} : InitialReturns(t, r)
    \/ \E e \in Errors : InitialRaises(t, e)
    \/ BackoffDone(t)
    \/ \E r \in RawIds \cup {RawNone} : RetryReturns(t, r)
    \/ \E e \in Errors : RetryRaises(t, e)
    \/ RecallReturns(t)
    \/ \E e \in Errors : RecallRaises(t, e)
    \/ RecallSleepDone(t)
    \/ \E resp \in NoticeResponses : NoticeReturns(t, resp)
    \/ \E e \in Errors : NoticeRaises(t, e)

\* Every awaited call and sleep ends, and a released lock goes to the task at
\* the head of its queue (asyncio.Lock wakes its waiters first in, first out).
Fairness ==
    \A t \in Tasks : WF_vars(Resolves(t)) /\ WF_vars(LockAcquire(t))

\* The frame left by an invocation whose first call of next_action returned
\* an id, stored at line 139.
FirstSent ==
    [Frame("") EXCEPT
        !.pc = "done",
        !.stats = [ZeroStats EXCEPT !.innerCalls = 1, !.writes = 1],
        !.logged = {Either(142, 144)}]

\* The state of Spec after task 1 has sent the message "7" on channel c1.
OneSent ==
    /\ config \in Configs
    /\ candidate = Raw(config)
    /\ handler = Built
    /\ registry = [c \in {"c1"} |-> "7"]
    /\ lockHolder = 0
    /\ lockWaiters = << >>
    /\ inv = [t \in Tasks |-> IF t = 1 THEN FirstSent ELSE Frame("")]
    /\ unlocked = {}
    /\ started = 1
    /\ confirmed = [c \in Channels |-> IF c = "c1" THEN "7" ELSE None]

InitOneSent == OneSent /\ ledger = Off

\* The handler from there on, every awaited call ending.
FairSpec == InitOneSent /\ [][Next]_vars /\ Fairness

\* The same state, a ledger of the sends and recalls being kept.
InitLedger == OneSent /\ ledger = [NoLedger EXCEPT !.sent = {"7"}]

\* The handler from there on, with the ledger.
SpecLedger == InitLedger /\ [][Next]_vars

\* ------------------------------------------- create_network_error_handler
\* Before the call: some current_config, no handler.
InitCreate ==
    /\ candidate \in RawConfigs
    /\ handler = Unbuilt
    /\ config = Unset
    /\ ledger = Off
    /\ Fresh

\* Line 116 returns: the configuration is closed over, the handler returned.
CreateReturns ==
    /\ handler = Unbuilt
    /\ validate_config(candidate) = 0
    /\ handler' = Built
    /\ config' = Closed(candidate)
    /\ UNCHANGED << candidate, registry, lockHolder, lockWaiters, inv,
                    unlocked, started, confirmed, ledger >>

\* Line 116 raises: the ValueError leaves create_network_error_handler.
CreateRaises ==
    /\ handler = Unbuilt
    /\ validate_config(candidate) # 0
    /\ handler' = Raised(validate_config(candidate))
    /\ UNCHANGED << candidate, config, registry, lockHolder, lockWaiters, inv,
                    unlocked, started, confirmed, ledger >>

NextCreate == CreateReturns \/ CreateRaises

SpecCreate == InitCreate /\ [][NextCreate]_vars

\* =================================================================== claims
AnyRaw == RawIds \cup {RawNone}
ActionStoreWaits == {"store_wait", "retry_store_wait"}
NoRecovery(l) ==
    l.stats.recallRuns = 0 /\ l.stats.recallCalls = 0 /\ l.stats.noticeSends = 0
\* The invocation of task t has made all its attempts and all of them failed.
Exhausted(l) == l.stats.fails = config.retry_attempts + 1
\* The places of an invocation in RECOVERING, after the recall routine.
AfterRecall == {"notice_send", "notice_store_wait"}

\* C1: with retry_attempts = N, when next_action has failed transiently
\* exactly N times and then returns, the handler returns normally (it may
\* first wait for the lock to store the id), the id returned, if any, is the
\* channel's registry entry when the handler returns, and the invocation has
\* made no recall_message call and no notice send.
C1_SuccessAfterNFailures ==
    [][ \A t \in Tasks :
          /\ \A r \in AnyRaw :
               ( /\ InitialReturns(t, r) \/ RetryReturns(t, r)
                 /\ inv[t].stats.fails = config.retry_attempts )
               => /\ inv'[t].raised = NoError
                  /\ NoRecovery(inv'[t])
                  /\ inv'[t].stats.innerCalls = config.retry_attempts + 1
                  /\ IF r = RawNone
                       THEN inv'[t].pc = "done" /\ registry' = registry
                       ELSE \/ /\ inv'[t].pc = "done"
                               /\ Get(registry', inv[t].ch) = Str(r)
                            \/ /\ inv'[t].pc \in ActionStoreWaits
                               /\ inv'[t].pending = Str(r)
          /\ ( /\ LockAcquire(t)
               /\ inv[t].pc \in ActionStoreWaits
               /\ inv[t].stats.fails = config.retry_attempts )
             => /\ inv'[t].pc = "done"
                /\ inv'[t].raised = NoError
                /\ NoRecovery(inv'[t])
                /\ Get(registry', inv[t].ch) = inv[t].pending
      ]_vars

C1_Witness ==
    \E t \in Tasks :
        /\ config.retry_attempts = MaxRetryAttempts
        /\ inv[t].pc = "done"
        /\ inv[t].stats.fails = config.retry_attempts
        /\ inv[t].stats.innerCalls = config.retry_attempts + 1
        /\ inv[t].stats.writes = 1
        /\ NoRecovery(inv[t])

\* C2: with retry_attempts = N, an invocation whose next_action has failed
\* transiently N+1 times makes no further attempt, sends exactly one error
\* notice, to the event's channel, and, unless it is cancelled, ends by
\* returning normally, whatever send_message returns or raises.
C2_OneNoticeThenReturn ==
    \A t \in Tasks :
        Exhausted(inv[t]) =>
            /\ inv[t].stats.innerCalls = config.retry_attempts + 1
            /\ inv[t].stats.sleeps = config.retry_attempts
            /\ inv[t].pc \in {"recall_wait", "recall_call", "recall_sleep",
                              "notice_send", "notice_store_wait", "done",
                              "propagate"}
            /\ inv[t].stats.noticeSends <= 1
            /\ inv[t].pc = "notice_send" =>
                  /\ inv[t].stats.noticeSends = 1
                  /\ inv[t].awaiting = SendCall(inv[t].ch)
            /\ inv[t].pc = "notice_store_wait" => inv[t].stats.noticeSends = 1
            /\ inv[t].pc = "propagate" => inv[t].raised = Cancelled
            /\ inv[t].pc = "done" =>
                  inv[t].stats.noticeSends = 1 /\ inv[t].raised = NoError

C2_Witness ==
    \E t \in Tasks :
        /\ config.retry_attempts = MaxRetryAttempts
        /\ Exhausted(inv[t])
        /\ inv[t].pc = "done"
        /\ inv[t].stats.noticeSends = 1
        /\ inv[t].stats.writes = 0

C4_NonTransientFirstAttempt ==
    [][ \A t \in Tasks : \A e \in Errors :
          (InitialRaises(t, e) /\ ~is_network_error(e))
          => /\ inv'[t].pc = "propagate"
             /\ inv'[t].raised = From(e, "next_action")
             /\ inv'[t].stats = [ZeroStats EXCEPT !.innerCalls = 1]
             /\ registry' = registry
             /\ lockHolder' = lockHolder
      ]_vars

C4_Witness ==
    \E t \in Tasks :
        /\ inv[t].pc = "propagate"
        /\ inv[t].raised = From([type |-> "ValueError", msg |-> "bad input"],
                                "next_action")
        /\ inv[t].stats = [ZeroStats EXCEPT !.innerCalls = 1]
        /\ config.retry_attempts > 0

\* C5: when a retry of next_action raises an error that is not a network
\* error, that error leaves the handler in the same step: no further sleep or
\* call of next_action, the recall routine not run, no notice sent, the
\* registry untouched; and an invocation that has ended does nothing more.
C5_NonTransientOnRetry ==
    [][ \A t \in Tasks :
          /\ \A e \in Errors :
               (RetryRaises(t, e) /\ ~is_network_error(e))
               => /\ inv'[t].pc = "propagate"
                  /\ inv'[t].raised = From(e, "next_action")
                  /\ inv'[t].stats = inv[t].stats
                  /\ inv'[t].stats.innerCalls = inv[t].attempts + 2
                  /\ NoRecovery(inv'[t])
                  /\ registry' = registry
          /\ (inv[t].pc = "propagate" /\ inv'[t] # inv[t])
             => inv'[t].stats.innerCalls <= 1 /\ started' = started + 1
      ]_vars

C5_Witness ==
    \E t \in Tasks :
        /\ config.retry_attempts = 2
        /\ inv[t].pc = "propagate"
        /\ inv[t].raised.origin = "next_action"
        /\ inv[t].stats.innerCalls = 2
        /\ inv[t].stats.fails = 1

\* The steps in which a cancellation reaches task t at a suspension point.
CancelledStep(t) ==
    \/ LockWaitCancelled(t)
    \/ InitialCancelled(t)
    \/ BackoffCancelled(t)
    \/ RetryCancelled(t)
    \/ RecallCancelled(t)
    \/ NoticeCancelled(t)

\* C6: a cancellation at any suspension point (a contended lock, a call of
\* next_action, a backoff sleep, recall_message or the recall routine's sleep,
\* the notice send) leaves the handler in the same step as a CancelledError:
\* nothing is counted as a failure, retried, recalled or sent, the registry
\* is untouched, the lock is not kept, and the invocation does nothing more.
C6_CancellationPropagates ==
    [][ \A t \in Tasks :
          /\ CancelledStep(t)
             => /\ inv'[t].pc = "propagate"
                /\ inv'[t].raised = Cancelled
                /\ inv'[t].stats = inv[t].stats
                /\ registry' = registry
                /\ lockHolder' # t
                /\ \A i \in 1..Len(lockWaiters') : lockWaiters'[i] # t
          /\ (inv[t].raised = Cancelled /\ inv'[t] # inv[t])
             => NoRecovery(inv'[t]) /\ started' = started + 1
      ]_vars

C6_Witness ==
    \E t \in Tasks :
        /\ inv[t].pc = "propagate"
        /\ inv[t].raised = Cancelled
        /\ inv[t].stats.recallCalls = 1
        /\ inv[t].stats.noticeSends = 0
        /\ lockHolder = 0

\* The step in which task t runs the re-check of the recall routine (line 72).
RecallCheckStep(t) ==
    /\ inv'[t].stats.recallRuns = 1
    /\ inv[t].stats.recallRuns = 0 \/ inv[t].pc = "recall_wait"
    /\ inv'[t].pc \notin {"recall_wait", "propagate"}

\* C7: when the recall routine starts and the channel's entry is no longer
\* the snapshot (a concurrent send stored another id, or the entry is gone),
\* it makes no recall_message call, leaves the registry as it is, releases the
\* lock and the handler goes on to the notice.
C7_RecallSkippedWhenReplaced ==
    [][ \A t \in Tasks :
          ( /\ RecallCheckStep(t)
            /\ Get(registry, inv'[t].ch) # inv'[t].prior )
          => /\ inv'[t].stats.recallCalls = 0
             /\ inv'[t].pc = "notice_send"
             /\ registry' = registry
             /\ lockHolder' = 0
      ]_vars

C7_Witness ==
    \E t \in Tasks :
        /\ inv[t].pc = "notice_send"
        /\ inv[t].stats.recallRuns = 1
        /\ inv[t].stats.recallCalls = 0
        /\ Get(registry, inv[t].ch) \in MsgIds \ {inv[t].prior}

\* C8: whatever leaves the handler as a raised exception is a CancelledError
\* or an error raised by next_action that is not a network error; no network
\* error of next_action and no error of recall_message or send_message does.
C8_OnlyNonTransientOrCancelled ==
    \A t \in Tasks :
        /\ inv[t].pc = "propagate" =>
              \/ inv[t].raised = Cancelled
              \/ /\ inv[t].raised.origin = "next_action"
                 /\ \E e \in Errors :
                       inv[t].raised = From(e, "next_action")
                       /\ ~is_network_error(e)
        /\ inv[t].pc # "propagate" => inv[t].raised = NoError

C8_Witness ==
    \E t \in Tasks :
        /\ inv[t].pc = "done"
        /\ Exhausted(inv[t])
        /\ inv[t].stats.recallCalls = config.recall_retry_attempts + 1
        /\ inv[t].stats.writes = 0

\* C9 as stated: in every reachable state the entry of a channel, when
\* present, is the id of the message most recently confirmed sent by the
\* wrapper on that channel (by next_action or by the notice send).
C9_EntryIsLastConfirmed ==
    \A c \in DOMAIN registry : registry[c] = confirmed[c]

\* C10 as stated: every read and write of the registry is made by a task
\* that holds the lock, and a task in the recall routine's compare / recall /
\* remove sequence holds the lock throughout.
C10_RegistryOnlyUnderLock ==
    /\ unlocked = {}
    /\ \A t \in Tasks :
          inv[t].pc \in {"recall_call", "recall_sleep"} => lockHolder = t

\* base doubled i times.
RECURSIVE Doubled(_, _)
Doubled(base, i) == IF i = 0 THEN base ELSE 2 * Doubled(base, i - 1)

C12_NoIdentifiersLogged ==
    \A t \in Tasks :
        ~config.log_sensitive_info =>
            \A line \in inv[t].logged :
                /\ ~LogRecord(line).message_id
                /\ ~LogRecord(line).channel_id

\* Is x a negative number?  Zero or negative?
Negative(x) == IsNumber(x) /\ x.v < 0
NotPositive(x) == IsNumber(x) /\ x.v <= 0

\* C13 as stated: create_network_error_handler raises, and builds no handler,
\* for a negative retry_attempts or recall_retry_attempts, for one that is
\* not an integer (a boolean included), for a zero or negative
\* retry_delay_base or recall_retry_delay_base and for a log_sensitive_info
\* that is not a boolean.
C13_InvalidConfigRejected ==
    ( /\ handler # Unbuilt
      /\ \/ Negative(candidate.retry_attempts)
         \/ candidate.retry_attempts.kind # "int"
         \/ NotPositive(candidate.retry_delay_base)
         \/ candidate.log_sensitive_info.kind # "bool"
         \/ Negative(candidate.recall_retry_attempts)
         \/ candidate.recall_retry_attempts.kind # "int"
         \/ NotPositive(candidate.recall_retry_delay_base) )
    => handler.state = "raised" /\ config = Unset

\* C14: in the step in which a recall_message call of the recall routine
\* returns, the caller holds the lock, the recalled id is the channel's entry,
\* and the entry is removed and the lock released with no other invocation
\* running in between: afterwards the channel has no entry.
C14_EntryRemovedBeforeRelease ==
    [][ \A t \in Tasks :
          RecallReturns(t)
          => /\ lockHolder = t
             /\ Get(registry, inv[t].ch) = inv[t].prior
             /\ inv[t].awaiting = RecallCall(inv[t].ch, inv[t].prior)
             /\ inv[t].ch \notin DOMAIN registry'
             /\ Get(registry', inv[t].ch) = None
             /\ \A c \in DOMAIN registry \ {inv[t].ch} :
                   c \in DOMAIN registry' /\ registry'[c] = registry[c]
             /\ lockHolder' = 0
             /\ \A u \in Tasks \ {t} : inv'[u] = inv[u]
      ]_vars

C14_Witness ==
    \E t \in Tasks : \E u \in Tasks \ {t} :
        /\ inv[t].pc = "notice_send"
        /\ inv[t].stats.recallCalls >= 1
        /\ inv[t].stats.writes = 1
        /\ inv[t].ch \notin DOMAIN registry
        /\ inv[u].pc = "snap_wait"
        /\ inv[u].ch = inv[t].ch
        /\ lockHolder = 0
        /\ lockWaiters = << u >>

\* The invocation of task t is inside a run of the recall routine.
InRecall(l) == l.pc \in {"recall_call", "recall_sleep"}

\* C15: a run of the recall routine makes at most recall_retry_attempts + 1
\* calls of recall_message; a call that returns ends the run, and no call is
\* made after it; a call that raises is followed by a sleep and another call
\* while fewer than recall_retry_attempts + 1 calls were made, and otherwise
\* ends the run without raising, after exactly recall_retry_attempts + 1
\* calls and recall_retry_attempts sleeps.
C15_RecallAttemptsBounded ==
    [][ \A t \in Tasks :
          /\ inv'[t].stats.recallCalls <= config.recall_retry_attempts + 1
          /\ inv'[t].stats.recallSleeps <= config.recall_retry_attempts
          /\ RecallReturns(t)
             => /\ inv'[t].pc = "notice_send"
                /\ inv'[t].raised = NoError
                /\ inv'[t].stats.recallCalls = inv[t].stats.recallCalls
                /\ inv'[t].stats.recallSleeps = inv[t].stats.recallSleeps
          /\ \A e \in Errors :
               RecallRaises(t, e)
               => IF inv[t].stats.recallCalls < config.recall_retry_attempts + 1
                    THEN /\ inv'[t].pc = "recall_sleep"
                         /\ inv'[t].stats.recallSleeps = inv[t].stats.recallCalls
                         /\ inv'[t].stats.recallCalls = inv[t].stats.recallCalls
                    ELSE /\ inv'[t].pc = "notice_send"
                         /\ inv'[t].raised = NoError
                         /\ inv'[t].stats.recallCalls
                               = config.recall_retry_attempts + 1
                         /\ inv'[t].stats.recallSleeps
                               = config.recall_retry_attempts
          /\ RecallSleepDone(t)
             => /\ inv'[t].pc = "recall_call"
                /\ inv'[t].stats.recallCalls = inv[t].stats.recallCalls + 1
          /\ (~InRecall(inv[t]) /\ inv[t].stats.recallCalls > 0
                 /\ inv'[t].stats.recallCalls > 0)
             => inv'[t].stats.recallCalls = inv[t].stats.recallCalls
      ]_vars

C15_Witness ==
    \E t \in Tasks :
        /\ config.recall_retry_attempts = MaxRecallRetryAttempts
        /\ inv[t].pc = "done"
        /\ inv[t].stats.recallRuns = 1
        /\ inv[t].stats.recallCalls = config.recall_retry_attempts + 1
        /\ inv[t].stats.recallSleeps = config.recall_retry_attempts
        /\ inv[t].stats.writes = 0
        /\ \E u \in Tasks :
              /\ inv[u].pc = "done"
              /\ inv[u].stats.recallCalls = 1
              /\ inv[u].stats.recallSleeps = 0
              /\ inv[u].stats.noticeSends = 1
              /\ inv[u].stats.writes = 1

\* The registry reg but for channel c.
Elsewhere(reg, c) == [x \in DOMAIN reg \ {c} |-> reg[x]]

\* C16: when next_action returns (first call or retry) without an id, the
\* handler returns normally in the same step and the registry is as it was;
\* when it returns an id, the text of that id becomes the channel's entry,
\* whatever the entry was, in the same step or, the lock being taken, in the
\* step in which the invocation gets the lock, and the handler then returns
\* normally; no other channel's entry changes.
C16_SuccessStoresOrLeaves ==
    [][ \A t \in Tasks :
          /\ \A r \in AnyRaw :
               (InitialReturns(t, r) \/ RetryReturns(t, r))
               => IF r = RawNone
                    THEN /\ inv'[t].pc = "done"
                         /\ inv'[t].raised = NoError
                         /\ inv'[t].stats.writes = 0
                         /\ registry' = registry
                    ELSE \/ /\ inv'[t].pc = "done"
                            /\ inv'[t].raised = NoError
                            /\ inv[t].ch \in DOMAIN registry'
                            /\ registry'[inv[t].ch] = Str(r)
                            /\ Elsewhere(registry', inv[t].ch)
                                  = Elsewhere(registry, inv[t].ch)
                         \/ /\ ~LockFree
                            /\ inv'[t].pc \in ActionStoreWaits
                            /\ inv'[t].pending = Str(r)
                            /\ registry' = registry
          /\ (LockAcquire(t) /\ inv[t].pc \in ActionStoreWaits)
             => /\ inv'[t].pc = "done"
                /\ inv'[t].raised = NoError
                /\ inv[t].ch \in DOMAIN registry'
                /\ registry'[inv[t].ch] = inv[t].pending
                /\ Elsewhere(registry', inv[t].ch)
                      = Elsewhere(registry, inv[t].ch)
      ]_vars

C16_Witness ==
    \E t \in Tasks : \E u \in Tasks \ {t} :
        /\ inv[t].pc = "done"
        /\ inv[t].stats.fails = 1
        /\ inv[t].stats.writes = 1
        /\ NoRecovery(inv[t])
        /\ inv[u].pc = "initial_call"
        /\ inv[u].ch = "c1"
        /\ inv[u].prior = "7"
        /\ Get(registry, "c1") = "8"

\* C17: under FairSpec every invocation that has started ends, returning
\* normally or raising; an invocation calls next_action at most
\* retry_attempts + 1 times; and with retry_attempts = 0 a network error of
\* the first call takes the invocation to the recall routine or the notice
\* without any sleep.
C17_EveryInvocationEnds ==
    /\ \A t \in Tasks :
          (inv[t].pc \notin Terminal) ~> (inv[t].pc \in {"done", "propagate"})
    /\ [](\A t \in Tasks :
            inv[t].stats.innerCalls <= config.retry_attempts + 1)
    /\ [][ \A t \in Tasks : \A e \in Errors :
             ( /\ InitialRaises(t, e)
               /\ is_network_error(e)
               /\ config.retry_attempts = 0 )
             => /\ inv'[t].pc \in {"recall_wait", "recall_call", "notice_send"}
                /\ inv'[t].stats.sleeps = 0
         ]_vars

C17_Witness ==
    \E t \in Tasks : \E u \in Tasks \ {t} :
        /\ config.retry_attempts = MaxRetryAttempts
        /\ inv[t].pc = "done"
        /\ inv[t].stats.innerCalls = config.retry_attempts + 1
        /\ inv[t].stats.recallCalls = config.recall_retry_attempts + 1
        /\ inv[t].stats.writes = 1
        /\ inv[u].pc = "done"
        /\ inv[u].stats.innerCalls = 1
        /\ inv[u].stats.writes = 1

\* C18: while an invocation is in the recall routine, between the re-check
\* and the end of its last attempt, it holds the lock, every recall_message
\* call it makes carries the channel and the id of its snapshot, that id is
\* the channel's entry at every such call and during the sleeps between, and
\* no step of any invocation changes the registry.
C18_RecallsCurrentSnapshot ==
    /\ [](\A t \in Tasks :
            InRecall(inv[t]) =>
                /\ lockHolder = t
                /\ Truthy(inv[t].prior)
                /\ inv[t].ch \in DOMAIN registry
                /\ registry[inv[t].ch] = inv[t].prior
                /\ inv[t].pc = "recall_call" =>
                      inv[t].awaiting = RecallCall(inv[t].ch, inv[t].prior))
    /\ [][ \A t \in Tasks :
             (InRecall(inv[t]) /\ InRecall(inv'[t]))
             => /\ registry' = registry
                /\ inv'[t].prior = inv[t].prior
                /\ inv'[t].ch = inv[t].ch
         ]_vars

C18_Witness ==
    \E t \in Tasks : \E u \in Tasks \ {t} :
        /\ inv[t].pc = "recall_call"
        /\ inv[t].rattempts = 1
        /\ inv[t].stats.recallCalls = 2
        /\ inv[u].pc = "store_wait"
        /\ inv[u].ch = inv[t].ch
        /\ inv[u].pending # inv[t].prior
        /\ lockWaiters = << u >>

\* The tasks in the lock's queue.
Waiting == { lockWaiters[i] : i \in 1..Len(lockWaiters) }

\* C19: the lock is taken only when free and is held by at most one task,
\* one inside the recall routine; an invocation that has ended, cancelled
\* in the recall routine included, neither holds the lock nor waits for it;
\* the waiting tasks are those suspended at an `async with`, each queued
\* once, and none of them holds the lock; and when tasks wait, either the
\* lock is free and the first of them can take it, or its holder is suspended
\* on recall_message or a sleep inside the recall routine: no deadlock.
C19_LockDiscipline ==
    /\ [](/\ lockHolder \in Tasks \cup {0}
          /\ Cardinality({ t \in Tasks : InRecall(inv[t]) }) <= 1
          /\ \A t \in Tasks :
                /\ lockHolder = t <=> InRecall(inv[t])
                /\ inv[t].pc \in Terminal => lockHolder # t /\ t \notin Waiting
                /\ t \in Waiting <=> inv[t].pc \in LockWaits
                /\ t \in Waiting => lockHolder # t
                /\ Cardinality({ i \in 1..Len(lockWaiters) :
                                   lockWaiters[i] = t }) <= 1
          /\ lockWaiters # << >> =>
                \/ lockHolder = 0 /\ ENABLED LockAcquire(Head(lockWaiters))
                \/ /\ lockHolder # 0
                   /\ inv[lockHolder].awaiting.op
                         \in {"recall_message", "sleep"})
    /\ [][ \A t \in Tasks :
             /\ (lockHolder' = t /\ lockHolder # t) => lockHolder = 0
             /\ (RecallCancelled(t) \/ RecallReturns(t)) =>
                   lockHolder = t /\ lockHolder' = 0
             /\ \A e \in Errors :
                   (RecallRaises(t, e) /\ ~InRecall(inv'[t])) =>
                       lockHolder = t /\ lockHolder' = 0
         ]_vars

C19_Witness ==
    \E t \in Tasks : \E u \in Tasks \ {t} :
        /\ inv[t].pc = "propagate"
        /\ inv[t].raised = Cancelled
        /\ inv[t].stats.recallCalls = 1
        /\ inv[t].stats.recallSleeps = 1
        /\ inv[u].pc = "recall_wait"
        /\ lockWaiters = << u >>
        /\ lockHolder = 0

\* C20: as long as no send has returned an id that an earlier send returned,
\* no id has had a recall_message call return for it twice; and once such a
\* call has returned for the id an invocation snapshotted, that invocation's
\* recall routine finds the entry changed and makes no recall_message call.
C20_RecalledAtMostOnce ==
    /\ [](~ledger.resent => ~ledger.twice)
    /\ [][ \A u \in Tasks :
             ( /\ RecallCheckStep(u)
               /\ inv'[u].prior \in ledger.recalled
               /\ ~ledger'.resent )
             => /\ inv'[u].stats.recallCalls = 0
                /\ inv'[u].pc = "notice_send"
                /\ registry' = registry
         ]_vars

C20_Witness ==
    \E t \in Tasks : \E u \in Tasks \ {t} :
        /\ ~ledger.resent
        /\ ledger.recalled = {"7"}
        /\ inv[t].stats.recallCalls >= 1
        /\ inv[t].stats.writes = 1
        /\ inv[t].pc = "notice_send"
        /\ inv[t].ch = "c1"
        /\ inv[t].prior = "7"
        /\ inv[u].pc = "notice_send"
        /\ inv[u].ch = "c1"
        /\ inv[u].prior = "7"
        /\ inv[u].stats.recallRuns = 1
        /\ inv[u].stats.recallCalls = 0

====
